---- MODULE Spec2Model ----
(***************************************************************************)
(* A model of src/lib/imageAnalysis.ts: the photo-analysis pipeline        *)
(* (laplacianVariance, exposureStats, dHashHex, hammingDistanceHex), the   *)
(* batch orchestrator analyzeFiles and the exporter exportAnalysesToCSV.   *)
(*                                                                         *)
(* Conventions.                                                            *)
(*  - A JavaScript string is a sequence of one-character strings, except   *)
(*    for the fixed labels (flags, header names, formatted numbers), which *)
(*    are kept as one token each.                                          *)
(*  - Real numbers are exact rationals or fixed point: blurScore is kept   *)
(*    in tenths of a point (349 is 34.9), a variance is [num, den].        *)
(*  - An object URL is identified by the index of the file it was created  *)
(*    for.                                                                 *)
(***************************************************************************)
EXTENDS Integers, Sequences, FiniteSets, TLC

VARIABLES
    \* analyzeFiles / exportAnalysesToCSV
    files,      \* the argument of analyzeFiles: a sequence of images
    pc,         \* position in analyzeFiles
    k,          \* 1-based position of the file the for-of loop is at
    results,    \* the local results array
    liveUrls,   \* object URLs created and not revoked
    revoked,    \* object URLs revoked
    i, j,       \* the indices of the duplicate pass (1-based)
    csv,        \* the string exportAnalysesToCSV returned, or <<>> before
    \* hammingDistanceHex on its own
    ha, hb, hout,
    \* laplacianVariance and the blur score on their own
    gray, gw, gh, lout

batchVars == <<files, pc, k, results, liveUrls, revoked, i, j, csv>>
hamVars == <<ha, hb, hout>>
lapVars == <<gray, gw, gh, lout>>
vars == <<files, pc, k, results, liveUrls, revoked, i, j, csv,
          ha, hb, hout, gray, gw, gh, lout>>

-----------------------------------------------------------------------------
(* Bounds of the model *)

\* longest batch handed to analyzeFiles
MaxFiles == 3
\* fingerprints handed to hammingDistanceHex have HashDigits - LenSlack .. HashDigits digits
LenSlack == 1
\* largest width and height of a luma buffer handed to laplacianVariance
MaxDim == 4
\* at most this many pixels of a luma buffer differ from its background value
MaxLit == 1

(* Constants of the program *)

HashW == 9
HashH == 8
HashDigits == 16
MaxAnalysisDim == 512
threshold == 5
BlurryBelow == 350
MinSide == 800
PixelsPerMegapixel == 1000000
UnderMaxBin == 5
OverMinBin == 250
MaxBin == 255

-----------------------------------------------------------------------------
(* Small helpers *)

Max(a, b) == IF a >= b THEN a ELSE b
Min(a, b) == IF a <= b THEN a ELSE b

RECURSIVE Pow(_, _)
Pow(b, e) == IF e = 0 THEN 1 ELSE b * Pow(b, e - 1)

\* Array.prototype.includes
Includes(s, x) == \E n \in 1..Len(s) : s[n] = x

-----------------------------------------------------------------------------
(* hammingDistanceHex *)

HexDigits == <<"0", "1", "2", "3", "4", "5", "6", "7",
               "8", "9", "a", "b", "c", "d", "e", "f">>
HexChars == {HexDigits[n] : n \in 1..16}

\* s[i] for a 0-based index i: the character, or undefined past the end
CharAt(s, idx) == IF idx + 1 <= Len(s) THEN s[idx + 1] ELSE "undefined"

\* parseInt(c, 16) of one character or of undefined: a number or NaN
ParseInt16(c) ==
    IF c \in HexChars
    THEN [nan |-> FALSE, v |-> (CHOOSE v \in 0..15 : HexDigits[v + 1] = c)]
    ELSE [nan |-> TRUE, v |-> 0]

\* ToInt32, which the operands of ^ go through: NaN becomes 0
ToInt32(n) == IF n.nan THEN 0 ELSE n.v

RECURSIVE BitXor(_, _)
\* a ^ b on non-negative integers
BitXor(a, b) ==
    IF a = 0 /\ b = 0 THEN 0
    ELSE (((a % 2) + (b % 2)) % 2) + 2 * BitXor(a \div 2, b \div 2)

\* (x >> n) & 1
ShiftAnd1(x, n) == (x \div Pow(2, n)) % 2

\* the alternative NibbleBitsDropHigh leaves the top bit of the nibble out
NibbleBitsDropHigh(x) == ShiftAnd1(x, 0) + ShiftAnd1(x, 1) + ShiftAnd1(x, 2)

\* (x & 1) + ((x >> 1) & 1) + ((x >> 2) & 1) + ((x >> 3) & 1)
NibbleBits(x) ==
    ShiftAnd1(x, 0) + ShiftAnd1(x, 1) + ShiftAnd1(x, 2) + ShiftAnd1(x, 3)

RECURSIVE HammingFrom(_, _, _)
\* the loop of hammingDistanceHex from index idx (0-based) on
HammingFrom(a, b, idx) ==
    IF idx >= Len(a) THEN 0
    ELSE LET ax == ParseInt16(CharAt(a, idx))
             bx == ParseInt16(CharAt(b, idx))
             x == BitXor(ToInt32(ax), ToInt32(bx))
         IN  NibbleBits(x) + HammingFrom(a, b, idx + 1)

\* the result is always a number: no path of the function throws
hammingDistanceHex(a, b) == [kind |-> "number", dist |-> HammingFrom(a, b, 0)]

-----------------------------------------------------------------------------
(* dHashHex *)

\* An image's 9x8 grayscale reduction (smallGrayscale), row-major.  The image
\* content is a ramp of img.steps descending steps at the start of row 0 on
\* a black ground, so two images differ in |steps1 - steps2| comparisons.
smallGrayscale(img) ==
    [p \in 1..(HashW * HashH) |->
        LET x == (p - 1) % HashW
            y == (p - 1) \div HashW
        IN  IF y = 0 /\ x < img.steps THEN img.steps - x ELSE 0]

\* the 64 comparison bits, row-major: "1" where left > right
dHashBits(g) ==
    [n \in 1..(HashH * (HashW - 1)) |->
        LET y == (n - 1) \div (HashW - 1)
            x == (n - 1) % (HashW - 1)
            left == g[y * HashW + x + 1]
            right == g[y * HashW + x + 2]
        IN  IF left > right THEN "1" ELSE "0"]

\* parseInt(nibble, 2) of four bit characters, most significant first
ParseNibble2(b1, b2, b3, b4) ==
    (IF b1 = "1" THEN 8 ELSE 0) + (IF b2 = "1" THEN 4 ELSE 0)
    + (IF b3 = "1" THEN 2 ELSE 0) + (IF b4 = "1" THEN 1 ELSE 0)

dHashHex(img) ==
    LET bits == dHashBits(smallGrayscale(img))
    IN  [n \in 1..((HashH * (HashW - 1)) \div 4) |->
            HexDigits[ParseNibble2(bits[4 * n - 3], bits[4 * n - 2],
                                   bits[4 * n - 1], bits[4 * n]) + 1]]

-----------------------------------------------------------------------------
(* laplacianVariance and the blur score *)

RECURSIVE GCD(_, _)
GCD(a, b) == IF b = 0 THEN a ELSE GCD(b, a % b)

\* the rational num / den (num >= 0, den > 0) in lowest terms
Rat(num, den) ==
    LET g == GCD(num, den) IN [num |-> num \div g, den |-> den \div g]

kernel == <<0, 1, 0, 1, -4, 1, 0, 1, 0>>

\* acc for the pixel (x, y), 0-based: the 3x3 neighbourhood times the kernel
Response(g, width, x, y) ==
    LET term(n) == LET kx == ((n - 1) % 3) - 1
                       ky == ((n - 1) \div 3) - 1
                   IN  g[(y + ky) * width + (x + kx) + 1] * kernel[n]
    IN  term(1) + term(2) + term(3) + term(4) + term(5)
        + term(6) + term(7) + term(8) + term(9)

\* for (let y = 1; y < height - 1; y++), and the same for x
LoopRange(size) == 1..(size - 2)

\* the array out after the convolution loops: zero wherever no loop wrote
Convolve(g, width, height) ==
    [p \in 1..(width * height) |->
        LET x == (p - 1) % width
            y == (p - 1) \div width
        IN  IF x \in LoopRange(width) /\ y \in LoopRange(height)
            THEN Response(g, width, x, y)
            ELSE 0]

RECURSIVE SumSeq(_, _)
\* s[1] + ... + s[n]
SumSeq(s, n) == IF n = 0 THEN 0 ELSE s[n] + SumSeq(s, n - 1)

\* The variance of the samples, as the two loops after the convolution
\* compute it: mean = sum / n, variance = sum of (sample - mean)^2 / n.
\* With mean = total / n each deviation is (n * sample - total) / n.
Variance(samples) ==
    LET n == Len(samples)
        total == SumSeq(samples, n)
        dev == [p \in 1..n |-> (n * samples[p] - total) * (n * samples[p] - total)]
    IN  Rat(SumSeq(dev, n), n * n * n)

\* n = out.length: every element of out is a sample, the border zeros too
laplacianVariance(g, width, height) == Variance(Convolve(g, width, height))

\* floor(1000 * (num / den)) for a rational >= 0
Thousandths(r) == 1000 * (r.num \div r.den) + ((1000 * (r.num % r.den)) \div r.den)

\* 10^(m/10) for m = 0..9 in thousandths, rounded up
MantissaSteps == <<1000, 1259, 1585, 1996, 2512, 3163, 3982, 5012, 6310, 7944>>

\* Math.log10(x) for x >= 1 given in thousandths, in tenths, rounded down
Log10Tenths(x1000) ==
    LET d == CHOOSE e \in 0..6 :
                 /\ x1000 \div Pow(10, e) >= 1000
                 /\ x1000 \div Pow(10, e) < 10000
        lead == x1000 \div Pow(10, d)
        m == CHOOSE t \in 0..9 :
                 /\ MantissaSteps[t + 1] <= lead
                 /\ t < 9 => lead < MantissaSteps[t + 2]
    IN  10 * d + m

\* the score before it is clamped, in tenths of a point
RawScore(variance) ==
    (Log10Tenths(Thousandths([num |-> variance.num + variance.den,
                              den |-> variance.den])) * 100) \div 3

\* the score left as the logarithm gives it
BlurScoreUnclamped(variance) == RawScore(variance)

\* Math.max(0, Math.min(100, (Math.log10(variance + 1) / 3) * 100)), in
\* tenths of a point
BlurScore(variance) == Max(0, Min(1000, RawScore(variance)))

-----------------------------------------------------------------------------
(* The images a batch is drawn from *)

\* An image file as analyzeFiles sees it:
\*   fail       which step of the per-image work throws: "none", "load"
\*              (createImage rejects), "canvas" (drawToCanvas throws), "hash"
\*              (smallGrayscale throws)
\*   name, sizeBytes, width, height   as the File and the decoded image give
\*   blurScore  the score lines 184-189 compute for its pixels, in tenths
\*   underOff, overOff   pixels in the dark (bright) tail of its analysis
\*              buffer, as an offset from exactly one quarter of the pixels
\*   steps      its 9x8 reduction (see smallGrayscale)
\*   exif       what extractExif resolves with
Img(fail, name, size, w, h, blur, underOff, overOff, steps, exif) ==
    [fail |-> fail, name |-> name, sizeBytes |-> size, width |-> w,
     height |-> h, blurScore |-> blur, underOff |-> underOff,
     overOff |-> overOff, steps |-> steps, exif |-> exif]

NoExif == [present |-> FALSE, make |-> <<>>, model |-> <<>>, dateTime |-> <<>>]
SomeExif == [present |-> TRUE, make |-> <<"A", "c", "m", "e">>,
             model |-> <<"X", ",", "1">>, dateTime |-> <<>>]

Catalog ==
    << Img("none", <<"a", ".jpg">>, 1000, 1000, 1000, 350, 0, 0, 0, SomeExif),
       Img("none", <<"b", ",", "c">>, 2000, 799, 2000, 349, 1, 1, 5, NoExif),
       Img("none", <<"d", "\"", "e">>, 3000, 800, 1000, 1000, 0, 0, 6, NoExif),
       Img("none", <<"f", "\n", "g">>, 4000, 800, 1250, 0, 0, 1, 0, SomeExif),
       Img("none", <<"h", ".png">>, 5000, 1920, 1080, 800, 1, 0, 1, NoExif),
       Img("load", <<"bad1">>, 10, 0, 0, 0, 0, 0, 0, NoExif),
       Img("canvas", <<"bad2">>, 20, 1000, 1000, 500, 0, 0, 2, NoExif),
       Img("hash", <<"bad3">>, 30, 640, 480, 500, 0, 0, 3, NoExif) >>

Images == {Catalog[n] : n \in 1..Len(Catalog)}

Batches == UNION {[1..n -> Images] : n \in 0..MaxFiles}

-----------------------------------------------------------------------------
(* drawToCanvas and exposureStats *)

\* Math.round of num / den for non-negative num and positive den
RoundDiv(num, den) == (2 * num + den) \div (2 * den)

\* the width and height of the canvas drawToCanvas(img, maxDim) reads back
drawToCanvas(img, maxDim) ==
    LET m == Max(img.width, img.height)
        scaled(side) == IF m <= maxDim THEN side ELSE RoundDiv(side * maxDim, m)
    IN  [width |-> Max(1, scaled(img.width)), height |-> Max(1, scaled(img.height))]

\* The luma histogram of the image drawn on a canvas of `total` pixels: the
\* loop of exposureStats over the pixels, for the content the image stands
\* for.  Bins 5 and 250 are the last and first bins of the tails, bins 6 and
\* 249 lie just outside them.
Histogram(img, total) ==
    LET q == total \div 4
        e == total \div 8
    IN  [y \in 0..MaxBin |->
            CASE y = 5 -> q + img.underOff
              [] y = 6 -> e
              [] y = 249 -> e
              [] y = 250 -> q + img.overOff
              [] y = 128 -> total - (2 * q + 2 * e + img.underOff + img.overOff)
              [] OTHER -> 0]

RECURSIVE SumBins(_, _, _)
\* hist[lo] + ... + hist[hi]
SumBins(hist, lo, hi) ==
    IF lo > hi THEN 0 ELSE hist[lo] + SumBins(hist, lo + 1, hi)

\* over and under are kept as pixel counts beside total: overExposedPercent
\* is over / total, underExposedPercent is under / total
exposureStats(hist, total) ==
    [over |-> SumBins(hist, OverMinBin, MaxBin),
     under |-> SumBins(hist, 0, UnderMaxBin),
     total |-> total]

-----------------------------------------------------------------------------
(* The flag classifier of analyzeFiles *)

\* a score of exactly 35 counted as blurry
IsBlurryInclusive(blurScore) == blurScore <= BlurryBelow

\* blurScore < 35
IsBlurry(blurScore) == blurScore < BlurryBelow

\* Math.min(width, height) < 800 || megapixels < 1.0
IsLowResolution(width, height) ==
    Min(width, height) < MinSide \/ width * height < PixelsPerMegapixel

\* a fraction count / total > 0.25
OverQuarter(count, total) == 4 * count > total

PushIf(s, cond, label) == IF cond THEN Append(s, label) ELSE s

Classify(blurScore, width, height, exposure) ==
    LET f1 == PushIf(<<>>, IsBlurry(blurScore), "blurry")
        f2 == PushIf(f1, IsLowResolution(width, height), "low-resolution")
        f3 == PushIf(f2, OverQuarter(exposure.over, exposure.total), "overexposed")
    IN  PushIf(f3, OverQuarter(exposure.under, exposure.total), "underexposed")

\* the record analyzeFiles pushes for files[n]
Analysis(img, n) ==
    LET canvas == drawToCanvas(img, MaxAnalysisDim)
        total == canvas.width * canvas.height
        exposure == exposureStats(Histogram(img, total), total)
    IN  [name |-> img.name, sizeBytes |-> img.sizeBytes,
         width |-> img.width, height |-> img.height,
         blurScore |-> img.blurScore, exposure |-> exposure,
         exif |-> img.exif, hashHex |-> dHashHex(img),
         flags |-> Classify(img.blurScore, img.width, img.height, exposure),
         objectUrl |-> n]

-----------------------------------------------------------------------------
(* exportAnalysesToCSV *)

header == << <<"name">>, <<"size_bytes">>, <<"width">>, <<"height">>,
             <<"megapixels">>, <<"aspect_ratio">>, <<"blur_score">>,
             <<"overexposed_pct">>, <<"underexposed_pct">>, <<"flags">>,
             <<"make">>, <<"model">>, <<"datetime">>, <<"hash_hex">> >>

RECURSIVE PadDigits(_, _)
\* the last d decimal digits of n, zero padded
PadDigits(n, d) ==
    IF d = 0 THEN "" ELSE PadDigits(n \div 10, d - 1) \o ToString(n % 10)

\* (num / den).toFixed(d) for a non-negative quotient, as one token
ToFixed(num, den, d) ==
    LET scaled == RoundDiv(num * Pow(10, d), den)
    IN  <<ToString(scaled \div Pow(10, d))
          \o (IF d = 0 THEN "" ELSE "." \o PadDigits(scaled % Pow(10, d), d))>>

RECURSIVE Join(_, _)
\* Array.prototype.join of strings, the separator one token
Join(parts, sep) ==
    IF Len(parts) = 0 THEN <<>>
    ELSE IF Len(parts) = 1 THEN parts[1]
    ELSE parts[1] \o <<sep>> \o Join(Tail(parts), sep)

RECURSIVE DoubleQuotes(_)
\* c.replace(/"/g, '""')
DoubleQuotes(c) ==
    IF Len(c) = 0 THEN <<>>
    ELSE (IF c[1] = "\"" THEN <<"\"", "\"">> ELSE <<c[1]>>) \o DoubleQuotes(Tail(c))

\* /[,"\n]/.test(c) ? `"${c.replace(/"/g, '""')}"` : c
Escape(c) ==
    IF \E n \in 1..Len(c) : c[n] \in {",", "\"", "\n"}
    THEN <<"\"">> \o DoubleQuotes(c) \o <<"\"">>
    ELSE c

\* the labels joined with "," instead
FlagsColumnComma(r) == Join([n \in 1..Len(r.flags) |-> <<r.flags[n]>>], ",")

\* the flags column: r.flags.join("|")
FlagsColumn(r) == Join([n \in 1..Len(r.flags) |-> <<r.flags[n]>>], "|")

cols(r) ==
    << r.name,
       <<ToString(r.sizeBytes)>>,
       <<ToString(r.width)>>,
       <<ToString(r.height)>>,
       ToFixed(r.width * r.height, PixelsPerMegapixel, 2),
       ToFixed(r.width, r.height, 4),
       ToFixed(r.blurScore, 10, 0),
       ToFixed(r.exposure.over * 100, r.exposure.total, 1),
       ToFixed(r.exposure.under * 100, r.exposure.total, 1),
       FlagsColumn(r),
       IF r.exif.present THEN r.exif.make ELSE <<>>,
       IF r.exif.present THEN r.exif.model ELSE <<>>,
       IF r.exif.present THEN r.exif.dateTime ELSE <<>>,
       r.hashHex >>

\* one line of the file: the escaped columns joined with ","
Line(columns) == Join([n \in 1..Len(columns) |-> Escape(columns[n])], ",")

exportAnalysesToCSV(rows) ==
    Join(<<Join(header, ",")>> \o [n \in 1..Len(rows) |-> Line(cols(rows[n]))], "\n")

-----------------------------------------------------------------------------
(* analyzeFiles *)

\* the URL is left alive
RevokeNothing(urls, url) == urls

\* URL.revokeObjectURL(objectUrl) on the set of live URLs
RevokeObjectURL(urls, url) == urls \ {url}

\* the catch block: the URL of the failing image is revoked and the error
\* is thrown again, which ends analyzeFiles
Catch ==
    /\ liveUrls' = RevokeObjectURL(liveUrls, k)
    /\ revoked' = revoked \cup {k}
    /\ pc' = "thrown"
    /\ UNCHANGED <<files, k, results, i, j, csv>>
    /\ UNCHANGED <<hamVars, lapVars>>

\* the for-of loop takes the next file: URL.createObjectURL(file), then
\* await createImage(objectUrl)
NextFile ==
    /\ pc = "loop"
    /\ k <= Len(files)
    /\ liveUrls' = liveUrls \cup {k}
    /\ pc' = "loading"
    /\ UNCHANGED <<files, k, results, revoked, i, j, csv>>
    /\ UNCHANGED <<hamVars, lapVars>>

\* img.onerror: createImage rejects
ImageLoadError ==
    /\ pc = "loading"
    /\ files[k].fail = "load"
    /\ Catch

\* img.onload, and drawToCanvas or dHashHex throws
AnalysisThrows ==
    /\ pc = "loading"
    /\ files[k].fail \in {"canvas", "hash"}
    /\ Catch

\* img.onload, the measurements are taken, then await extractExif(file)
AnalysisDone ==
    /\ pc = "loading"
    /\ files[k].fail = "none"
    /\ pc' = "exif"
    /\ UNCHANGED <<files, k, results, liveUrls, revoked, i, j, csv>>
    /\ UNCHANGED <<hamVars, lapVars>>

\* extractExif resolves (it never rejects); flags are computed and the
\* record is pushed
PushRecord ==
    /\ pc = "exif"
    /\ results' = Append(results, Analysis(files[k], k))
    /\ k' = k + 1
    /\ pc' = "loop"
    /\ UNCHANGED <<files, liveUrls, revoked, i, j, csv>>
    /\ UNCHANGED <<hamVars, lapVars>>

\* the loop ends one file early
LoopOverEarly == k >= Len(files)

\* the for-of loop is over when every file was taken
LoopOver == k > Len(files)

\* the duplicate pass starts: i = 0, j = i + 1 (here 1-based)
StartDuplicatePass ==
    /\ pc = "loop"
    /\ LoopOver
    /\ pc' = "dup"
    /\ i' = 1
    /\ j' = 2
    /\ UNCHANGED <<files, k, results, liveUrls, revoked, csv>>
    /\ UNCHANGED <<hamVars, lapVars>>

\* the label is pushed without looking
MarkDuplicateAlways(flags) == Append(flags, "duplicate")

\* b.flags.includes("duplicate") || b.flags.push("duplicate")
MarkDuplicate(flags) ==
    IF Includes(flags, "duplicate") THEN flags ELSE Append(flags, "duplicate")

\* a strict comparison with the threshold
WithinThresholdStrict(dist) == dist < threshold

\* dist <= threshold
WithinThreshold(dist) == dist <= threshold

\* one turn of the inner loop: results[i] against results[j]
CompareHashes ==
    /\ pc = "dup"
    /\ i <= Len(results)
    /\ j <= Len(results)
    /\ LET a == results[i]
           b == results[j]
           dist == hammingDistanceHex(a.hashHex, b.hashHex).dist
       IN  results' =
             IF WithinThreshold(dist)
             THEN [results EXCEPT ![j].flags = MarkDuplicate(b.flags)]
             ELSE results
    /\ j' = j + 1
    /\ UNCHANGED <<files, pc, k, liveUrls, revoked, i, csv>>
    /\ UNCHANGED <<hamVars, lapVars>>

\* the inner loop is over: i++, j = i + 1
NextOuter ==
    /\ pc = "dup"
    /\ i <= Len(results)
    /\ j > Len(results)
    /\ i' = i + 1
    /\ j' = i + 2
    /\ UNCHANGED <<files, pc, k, results, liveUrls, revoked, csv>>
    /\ UNCHANGED <<hamVars, lapVars>>

\* return results
Return ==
    /\ pc = "dup"
    /\ i > Len(results)
    /\ pc' = "returned"
    /\ UNCHANGED <<files, k, results, liveUrls, revoked, i, j, csv>>
    /\ UNCHANGED <<hamVars, lapVars>>

\* the caller exports the batch analyzeFiles returned
ExportCSV ==
    /\ pc = "returned"
    /\ csv' = exportAnalysesToCSV(results)
    /\ pc' = "exported"
    /\ UNCHANGED <<files, k, results, liveUrls, revoked, i, j>>
    /\ UNCHANGED <<hamVars, lapVars>>

HamIdle == ha = <<>> /\ hb = <<>> /\ hout = [kind |-> "none"]
LapIdle == gray = <<>> /\ gw = 0 /\ gh = 0 /\ lout = [kind |-> "none"]
BatchIdle ==
    /\ files = <<>> /\ pc = "idle" /\ k = 1 /\ results = <<>>
    /\ liveUrls = {} /\ revoked = {} /\ i = 0 /\ j = 0 /\ csv = <<>>

Init ==
    /\ files \in Batches
    /\ pc = "loop"
    /\ k = 1
    /\ results = <<>>
    /\ liveUrls = {}
    /\ revoked = {}
    /\ i = 0
    /\ j = 0
    /\ csv = <<>>
    /\ HamIdle
    /\ LapIdle

Next ==
    \/ NextFile
    \/ ImageLoadError
    \/ AnalysisThrows
    \/ AnalysisDone
    \/ PushRecord
    \/ StartDuplicatePass
    \/ CompareHashes
    \/ NextOuter
    \/ Return
    \/ ExportCSV

Spec == Init /\ [][Next]_vars

-----------------------------------------------------------------------------
(* Reference definitions the properties are stated with *)

\* the four bits of a hexadecimal digit, most significant first
NibbleTable ==
    [c \in HexChars |->
        CASE c = "0" -> <<0, 0, 0, 0>> [] c = "1" -> <<0, 0, 0, 1>>
          [] c = "2" -> <<0, 0, 1, 0>> [] c = "3" -> <<0, 0, 1, 1>>
          [] c = "4" -> <<0, 1, 0, 0>> [] c = "5" -> <<0, 1, 0, 1>>
          [] c = "6" -> <<0, 1, 1, 0>> [] c = "7" -> <<0, 1, 1, 1>>
          [] c = "8" -> <<1, 0, 0, 0>> [] c = "9" -> <<1, 0, 0, 1>>
          [] c = "a" -> <<1, 0, 1, 0>> [] c = "b" -> <<1, 0, 1, 1>>
          [] c = "c" -> <<1, 1, 0, 0>> [] c = "d" -> <<1, 1, 0, 1>>
          [] c = "e" -> <<1, 1, 1, 0>> [] c = "f" -> <<1, 1, 1, 1>>]

\* bit n (1-based) of a fingerprint read as a bit string
FingerprintBit(h, n) == NibbleTable[h[((n - 1) \div 4) + 1]][((n - 1) % 4) + 1]

\* the number of bit positions in which two fingerprints of equal length differ
BitsDiffering(a, b) ==
    Cardinality({n \in 1..(4 * Len(a)) : FingerprintBit(a, n) # FingerprintBit(b, n)})

HasDuplicateFlag(r) == \E n \in 1..Len(r.flags) : r.flags[n] = "duplicate"

Returned == pc \in {"returned", "exported"}

\* A quote-aware CSV reader.  A separator is a "," or a line break with an
\* even number of quote characters before it.
Unquoted(text, pos) ==
    Cardinality({p \in 1..(pos - 1) : text[p] = "\""}) % 2 = 0

Separators(text, sep) ==
    {p \in 1..Len(text) : text[p] = sep /\ Unquoted(text, p)}

\* the pieces of text between the separators, in order
Split(text, sep) ==
    LET seps == Separators(text, sep)
        nth(n) == IF n = 0 THEN 0
                  ELSE IF n > Cardinality(seps) THEN Len(text) + 1
                  ELSE CHOOSE p \in seps : Cardinality({q \in seps : q < p}) = n - 1
    IN  [n \in 1..(Cardinality(seps) + 1) |->
            SubSeq(text, nth(n - 1) + 1, nth(n) - 1)]

RECURSIVE Undouble(_)
Undouble(c) ==
    IF Len(c) = 0 THEN <<>>
    ELSE IF Len(c) >= 2 /\ c[1] = "\"" /\ c[2] = "\""
         THEN <<"\"">> \o Undouble(SubSeq(c, 3, Len(c)))
         ELSE <<c[1]>> \o Undouble(Tail(c))

\* the content of a cell as written in the file
Unquote(c) ==
    IF Len(c) >= 2 /\ c[1] = "\"" /\ c[Len(c)] = "\""
    THEN Undouble(SubSeq(c, 2, Len(c) - 1))
    ELSE c

ParseCSV(text) ==
    LET lines == Split(text, "\n")
    IN  [n \in 1..Len(lines) |->
            LET cells == Split(lines[n], ",")
            IN  [m \in 1..Len(cells) |-> Unquote(cells[m])]]

\* cell is the labels of flags in order, separated by "|"
IsJoinedFlags(cell, flags) ==
    /\ Len(cell) = (IF Len(flags) = 0 THEN 0 ELSE 2 * Len(flags) - 1)
    /\ \A n \in 1..Len(cell) :
          cell[n] = (IF n % 2 = 1 THEN flags[(n + 1) \div 2] ELSE "|")

-----------------------------------------------------------------------------
(* Properties of analyzeFiles and exportAnalysesToCSV *)

\* C1: when analyzeFiles has returned, record n carries "duplicate" exactly
\* when some earlier record's fingerprint differs from its own in at most 5
\* bits; so record 1 never carries it.
C1_DuplicateIffEarlierNear ==
    Returned =>
        \A n \in 1..Len(results) :
            HasDuplicateFlag(results[n])
            <=> \E m \in 1..(n - 1) :
                    BitsDiffering(results[m].hashHex, results[n].hashHex) <= 5

\* a batch has returned in which record 2 is 6 bits from record 1 and is not
\* flagged, and record 3 is exactly 5 bits from record 1 and is flagged
C1_Witness ==
    /\ pc = "returned"
    /\ Len(results) = 3
    /\ BitsDiffering(results[1].hashHex, results[2].hashHex) = 6
    /\ BitsDiffering(results[1].hashHex, results[3].hashHex) = 5
    /\ ~HasDuplicateFlag(results[1])
    /\ ~HasDuplicateFlag(results[2])
    /\ HasDuplicateFlag(results[3])

\* C2: once analyzeFiles has thrown at file k, the URL of file k is revoked,
\* only the files before k produced a record, no URL of a later file was ever
\* created, no record is flagged duplicate, nothing was returned or exported
\* and no step remains; and a batch with a failing file never reaches the
\* duplicate pass or returns.
C2_FailureAbortsBatch ==
    /\ pc = "thrown" =>
          /\ files[k].fail # "none"
          /\ k \notin liveUrls
          /\ k \in revoked
          /\ Len(results) = k - 1
          /\ liveUrls \cup revoked = 1..k
          /\ \A n \in 1..Len(results) : ~HasDuplicateFlag(results[n])
          /\ csv = <<>>
          /\ ~ENABLED Next
    /\ pc \in {"dup", "returned", "exported"} =>
          \A n \in 1..Len(files) : files[n].fail = "none"

\* the second of three files failed
C2_Witness ==
    /\ pc = "thrown"
    /\ k = 2
    /\ Len(files) = 3
    /\ Len(results) = 1

\* C3: while the duplicate pass runs, and whenever some record carries
\* "duplicate", the result list holds one record per input file, in input
\* order.
C3_DuplicatePassAfterAllRecords ==
    (pc = "dup" \/ \E n \in 1..Len(results) : HasDuplicateFlag(results[n])) =>
        /\ Len(results) = Len(files)
        /\ \A n \in 1..Len(results) :
              /\ results[n].objectUrl = n
              /\ results[n].name = files[n].name
              /\ results[n].hashHex = dHashHex(files[n])

\* the first comparison of a batch of three is about to happen
C3_Witness ==
    /\ pc = "dup"
    /\ i = 1
    /\ j = 2
    /\ Len(files) = 3

\* C4: no record ever carries a label twice.
C4_FlagsDistinct ==
    \A n \in 1..Len(results) :
        \A a, b \in 1..Len(results[n].flags) :
            a # b => results[n].flags[a] # results[n].flags[b]

\* record 3 is within the threshold of records 1 and 2 and carries
\* "duplicate"
C4_Witness ==
    /\ Returned
    /\ Len(results) = 3
    /\ BitsDiffering(results[1].hashHex, results[3].hashHex) <= 5
    /\ BitsDiffering(results[2].hashHex, results[3].hashHex) <= 5
    /\ HasDuplicateFlag(results[3])

\* the labels the thresholds select for a record's measurements
ExpectedLabels(r) ==
    (IF r.blurScore < 350 THEN {"blurry"} ELSE {})
    \cup (IF r.width < 800 \/ r.height < 800 \/ r.width * r.height < 1000000
          THEN {"low-resolution"} ELSE {})
    \cup (IF 4 * r.exposure.over > r.exposure.total THEN {"overexposed"} ELSE {})
    \cup (IF 4 * r.exposure.under > r.exposure.total THEN {"underexposed"} ELSE {})

LabelSet(flags) == {flags[n] : n \in 1..Len(flags)}

\* every subset of the four labels is what the classifier gives for some
\* measurements
EverySubsetOccurs ==
    \A S \in SUBSET {"blurry", "low-resolution", "overexposed", "underexposed"} :
        \E b \in {349, 350}, w \in {799, 1000}, o \in {25, 26}, u \in {25, 26} :
            LabelSet(Classify(b, w, 2000, [over |-> o, under |-> u, total |-> 100])) = S

\* C8: before the duplicate pass the labels of each record are exactly those
\* its measurements select under the fixed thresholds, and every subset of
\* the four labels is selected by some measurements.
C8_FlagsMatchThresholds ==
    /\ pc \in {"loop", "loading", "exif"} =>
          \A n \in 1..Len(results) :
              LabelSet(results[n].flags) = ExpectedLabels(results[n])
    /\ EverySubsetOccurs

\* a record scored 34.9 is blurry, one scored 35.0 is not, one carries no
\* label and one carries all four
C8_Witness ==
    /\ pc = "loop"
    /\ \E n \in 1..Len(results) :
          results[n].blurScore = 349 /\ Includes(results[n].flags, "blurry")
          /\ Len(results[n].flags) = 4
    /\ \E n \in 1..Len(results) :
          results[n].blurScore = 350 /\ results[n].flags = <<>>

\* C9: the exported file reads back as the header row followed by one row
\* per record in batch order, whose flags column is the record's labels in
\* order joined with "|".
C9_ExportRows ==
    pc = "exported" =>
        LET rows == ParseCSV(csv) IN
        /\ Len(rows) = 1 + Len(results)
        /\ rows[1] = header
        /\ \A n \in 1..Len(results) :
              /\ Len(rows[n + 1]) = Len(header)
              /\ rows[n + 1][1] = results[n].name
              /\ rows[n + 1][14] = results[n].hashHex
              /\ IsJoinedFlags(rows[n + 1][10], results[n].flags)

\* two records one bit apart were exported: row 2 names "duplicate", row 1
\* does not
C9_Witness ==
    /\ pc = "exported"
    /\ Len(results) = 2
    /\ BitsDiffering(results[1].hashHex, results[2].hashHex) = 1
    /\ LET rows == ParseCSV(csv) IN
          /\ Includes(rows[3][10], "duplicate")
          /\ ~Includes(rows[2][10], "duplicate")

-----------------------------------------------------------------------------
(* hammingDistanceHex on its own *)

\* a fingerprint of len digits: first, then fill repeated
Fingerprint(first, fill, len) == [n \in 1..len |-> IF n = 1 THEN first ELSE fill]

Fingerprints ==
    {Fingerprint(first, fill, len) :
        first \in HexChars, fill \in {"0", "5", "f"},
        len \in (HashDigits - LenSlack)..HashDigits}

InitHamming ==
    /\ ha \in Fingerprints
    /\ hb \in Fingerprints
    /\ hout = [kind |-> "none"]
    /\ BatchIdle
    /\ LapIdle

CallHamming ==
    /\ hout.kind = "none"
    /\ hout' = hammingDistanceHex(ha, hb)
    /\ UNCHANGED <<ha, hb>>
    /\ UNCHANGED <<batchVars, lapVars>>

NextHamming == CallHamming

SpecHamming == InitHamming /\ [][NextHamming]_vars

\* C6: a call of hammingDistanceHex with fingerprints of different lengths
\* ends in an error, never in a number.
C6_UnequalLengthsRejected ==
    (hout.kind # "none" /\ Len(ha) # Len(hb)) => hout.kind = "error"

\* C7: for two fingerprints of 16 digits the result is the number of the 64
\* bit positions in which they differ; it lies in 0..64 and is 0 for equal
\* fingerprints.
C7_HammingIsBitCount ==
    (hout.kind # "none" /\ Len(ha) = 16 /\ Len(hb) = 16) =>
        /\ hout.kind = "number"
        /\ hout.dist = BitsDiffering(ha, hb)
        /\ hout.dist >= 0
        /\ hout.dist <= 64
        /\ (ha = hb => hout.dist = 0)

\* two fingerprints of 16 digits that differ in all 64 bits were compared
C7_Witness ==
    /\ hout.kind = "number"
    /\ Len(ha) = 16
    /\ Len(hb) = 16
    /\ BitsDiffering(ha, hb) = 64
    /\ hout.dist = 64

-----------------------------------------------------------------------------
(* laplacianVariance and the blur score on their own *)

GrayLevels == {0, 1, 100, 255}

\* the luma buffers of width w and height h with a flat ground and at most
\* MaxLit pixels of another value
Buffers(w, h) ==
    {[p \in 1..(w * h) |-> IF \E n \in DOMAIN lit : lit[n] = p THEN fg ELSE bg] :
        bg \in GrayLevels, fg \in GrayLevels,
        lit \in UNION {[1..n -> 1..(w * h)] : n \in 0..MaxLit}}

InitLaplacian ==
    /\ gw \in 1..MaxDim
    /\ gh \in 1..MaxDim
    /\ gray \in Buffers(gw, gh)
    /\ lout = [kind |-> "none"]
    /\ BatchIdle
    /\ HamIdle

\* lines 186-189 of analyzeFiles: the variance, then the score
CallLaplacian ==
    /\ lout.kind = "none"
    /\ LET variance == laplacianVariance(gray, gw, gh)
       IN  lout' = [kind |-> "done", variance |-> variance,
                    blurScore |-> BlurScore(variance)]
    /\ UNCHANGED <<gray, gw, gh>>
    /\ UNCHANGED <<batchVars, hamVars>>

NextLaplacian == CallLaplacian

SpecLaplacian == InitLaplacian /\ [][NextLaplacian]_vars

Interior(w, h) ==
    {p \in 1..(w * h) :
        /\ ((p - 1) % w) \in 1..(w - 2)
        /\ ((p - 1) \div w) \in 1..(h - 2)}

IsFlat(g) == \A p, q \in DOMAIN g : g[p] = g[q]

\* the population variance of the Laplacian response over the interior
\* pixels alone: sum and divisor taken over (w - 2) * (h - 2) samples
InteriorVariance(g, w, h) ==
    LET n == (w - 2) * (h - 2)
        resp(p) == Response(g, w, (p - 1) % w, (p - 1) \div w)
        RECURSIVE Sum(_, _)
        Sum(f(_), S) == IF S = {} THEN 0
                        ELSE LET p == CHOOSE q \in S : TRUE
                             IN  f(p) + Sum(f, S \ {p})
        total == Sum(resp, Interior(w, h))
        dev(p) == (n * resp(p) - total) * (n * resp(p) - total)
    IN  Rat(Sum(dev, Interior(w, h)), n * n * n)

\* C5: for a buffer of at least 3x3 pixels laplacianVariance is the
\* population variance of the response over the (w - 2) * (h - 2) interior
\* pixels, the border left out of the sum and of the divisor.
C5_VarianceOverInterior ==
    (lout.kind = "done" /\ gw >= 3 /\ gh >= 3) =>
        lout.variance = InteriorVariance(gray, gw, gh)

\* C10: a buffer without interior pixels, or a flat one, gives variance 0
\* and score 0, and every score lies in 0..100 (here in tenths).
C10_DegenerateIsZeroAndScoreBounded ==
    lout.kind = "done" =>
        /\ (gw < 3 \/ gh < 3 \/ IsFlat(gray)) =>
              (lout.variance.num = 0 /\ lout.blurScore = 0)
        /\ lout.blurScore >= 0
        /\ lout.blurScore <= 1000

\* a 2x2 buffer that is not flat was scored 0
C10_Witness ==
    /\ lout.kind = "done"
    /\ gw = 2
    /\ gh = 2
    /\ ~IsFlat(gray)
    /\ lout.variance.num = 0
    /\ lout.blurScore = 0

====
